---- MODULE Spec2Model ----
(***************************************************************************)
(* HubListener: the incremental commit-analysis pipeline.                  *)
(*                                                                         *)
(*   SpecWalk    Clone.foreachCommit driven by Clone.analyseCommits (with   *)
(*               a catcher) or by Data.analyse (without one), down to the   *)
(*               extractors that Clone.staticAnalysis launches.             *)
(*   SpecSelect  the incremental selection of Data.analyse and of           *)
(*               Clone.commitsAfter.                                        *)
(*   SpecData    runs of Data.analyse against the Database.                 *)
(*   SpecPar     parallelAnalysis: chunks, clones, worker processes, merge. *)
(***************************************************************************)
EXTENDS Integers, Sequences, FiniteSets, TLC

\* ------------------------------------------------------------------ bounds
MaxCommits == 3

\* --------------------------------------------------------------- variables
VARIABLES
    \* Clone.foreachCommit (src/src/clone.js)
    commits,      \* the list of commits handed to foreachCommit
    catcher,      \* TRUE iff a catcher callback was supplied
    i,            \* the 1-based index of the loop
    results,      \* the results pushed so far
    pc,           \* where the walk is suspended
    tree,         \* the commit the working tree matches (0: none yet)
    promises,     \* the per-extension promises of the running staticAnalysis
    procs,        \* the spawned extractor processes that have not exited
    resetFailed   \* the indexes whose hard reset failed

walkVars == <<commits, catcher, i, results, pc, tree, promises, procs, resetFailed>>

VARIABLES
    \* the incremental selection (src/src/data.js, src/src/clone.js)
    allCommits,   \* headCommitHistory(): the history as the revwalk gives it
    lastCommit,   \* getLastCommit(): Null or the last commit in the database
    newCommits,   \* the commits Data.analyse selects
    after,        \* the commits Clone.commitsAfter returns
    selected      \* which of the two selections have run

selVars == <<allCommits, lastCommit, newCommits, after, selected>>

VARIABLES
    \* Data.analyse and the Database (src/src/data.js, src/src/database.js)
    MetricValues, \* the rows of the table MetricValues, in rowid order
    runs,         \* the state of each call of Data.analyse
    stmt,         \* per run: the rows its prepared INSERT has still to run
    inserted,     \* per run: how many rows its INSERT has added to the table
    firstWritten  \* per key: the value of the first write that was executed

dataVars == <<MetricValues, runs, stmt, inserted, firstWritten>>

VARIABLES
    \* parallelAnalysis (src/src/parallel.js)
    commit_ids,   \* the chronological list of commit ids
    n_cpus,       \* the worker count
    policy,       \* which of the two versions of the chunking loop runs
    basePath,     \* data.clone.path: the repository the clones are made from
    params,       \* the {path, commit_ids} of each partition
    dirs,         \* the clone directories on disk
    parPc,        \* where parallelAnalysis is
    workers,      \* the state of each forked process
    partition,    \* the state of each partition's promise
    exitSeen,     \* the partitions whose 'exit' event the parent has processed
    merged        \* the results parallelAnalysis returns

parVars == <<commit_ids, n_cpus, policy, basePath, params, dirs, parPc,
             workers, partition, exitSeen, merged>>

VARIABLES
    \* a call of a function of utils or of a helper of clone.js
    fn,         \* the function called
    args,       \* its arguments
    value,      \* what it returned
    returned    \* whether it has returned

utilVars == <<fn, args, value, returned>>

VARIABLES
    \* overlapping requests to /analyse
    Repositories,   \* the rows of the table Repositories
    requests        \* per request: where it is, its clone, its repository id

reqVars == <<Repositories, requests>>

vars == <<walkVars, selVars, dataVars, parVars, utilVars, reqVars>>

notWalk == <<selVars, dataVars, parVars, utilVars, reqVars>>
notSel  == <<walkVars, dataVars, parVars, utilVars, reqVars>>
notData == <<walkVars, selVars, parVars, utilVars, reqVars>>
notPar  == <<walkVars, selVars, dataVars, utilVars, reqVars>>
notReq  == <<walkVars, selVars, dataVars, parVars, utilVars>>
notUtil == <<walkVars, selVars, dataVars, parVars, reqVars>>

\* ------------------------------------------------------------ the commits
CommitIds == 1 .. MaxCommits

\* commit.date(): the commit time, whole seconds, as a Date in milliseconds
DateOf(c) == c * 1000

\* The file groups of a commit's tree, in the insertion order of fileByExt.
\* A commit is immutable, so its tree is a function of the commit.
Trees == << <<>>, <<".txt">>, <<".js", ".py">> >>

TreeOf(c) == Trees[((c - 1) % Len(Trees)) + 1]

EmptyMap == [x \in {} |-> 0]

RECURSIVE SeqsOver(_, _)
\* the sequences without repetition over S of length at most n
SeqsOver(S, n) ==
    IF n = 0 THEN {<<>>}
    ELSE LET shorter == SeqsOver(S, n - 1)
         IN  shorter \cup {Append(s, x) : s \in shorter, x \in S}

Elems(s) == {s[k] : k \in DOMAIN s}

DistinctSeqs(S, n) == {s \in SeqsOver(S, n) : Cardinality(Elems(s)) = Len(s)}

\* ------------------------------------------------- Clone.staticAnalysis
\* What the environment lets an extractor do when it is launched.
\*   ".js"  analyse.javascript: "ok", "parse" (escomplex throws, the generic
\*          report is resolved instead), "throw" (readFileSync throws in the
\*          executor: the promise is rejected)
\*   ".py"  analyse.python: "ok" (the process is spawned, the promise is
\*          pending), "throw" (spawn throws: the generic report is resolved)
\*   other  analyse.generic: "ok", "throw" (readFileSync throws in the caller)
OutcomesFor(ext) ==
    CASE ext = ".js" -> {"ok", "parse", "throw"}
      [] ext = ".py" -> {"ok", "throw"}
      [] OTHER       -> {"ok", "throw"}

LaunchChoices(t) ==
    {oc \in [DOMAIN t -> {"ok", "parse", "throw"}] :
        \A k \in DOMAIN t : oc[k] \in OutcomesFor(t[k])}

\* the promise one extractor returns
PromiseOf(ext, o) ==
    CASE ext = ".js" /\ o = "ok"    -> [ext |-> ext, st |-> "resolved", val |-> "javascript"]
      [] ext = ".js" /\ o = "parse" -> [ext |-> ext, st |-> "resolved", val |-> "generic"]
      [] ext = ".js" /\ o = "throw" -> [ext |-> ext, st |-> "rejected", val |-> "error"]
      [] ext = ".py" /\ o = "ok"    -> [ext |-> ext, st |-> "pending",  val |-> "none"]
      [] ext = ".py" /\ o = "throw" -> [ext |-> ext, st |-> "resolved", val |-> "generic"]
      [] OTHER                      -> [ext |-> ext, st |-> "resolved", val |-> "generic"]

\* analyse.generic throws in the launching loop itself
ThrowsInLoop(ext, o) == ext \notin {".js", ".py"} /\ o = "throw"

RECURSIVE LaunchFrom(_, _, _, _)
\* The loop "analyse files by extension": the promises launched before the
\* loop ends or an extractor throws synchronously.
LaunchFrom(t, oc, k, ps) ==
    IF k > Len(t) THEN [ps |-> ps, thrown |-> FALSE]
    ELSE IF ThrowsInLoop(t[k], oc[k]) THEN [ps |-> ps, thrown |-> TRUE]
    ELSE LaunchFrom(t, oc, k + 1, Append(ps, PromiseOf(t[k], oc[k])))

RECURSIVE AwaitFrom(_, _, _)
\* The loop "wait for all extension analyses to complete", from promise k on:
\* it runs on while the awaited promises are settled.
AwaitFrom(ps, k, out) ==
    IF k > Len(ps) THEN [kind |-> "resolved", out |-> out]
    ELSE IF ps[k].st = "pending" THEN [kind |-> "pending", out |-> out]
    ELSE IF ps[k].st = "rejected" THEN [kind |-> "rejected", out |-> out]
    ELSE AwaitFrom(ps, k + 1, out @@ (ps[k].ext :> ps[k].val))

\* staticAnalysis once the files are listed
StaticAnalysis(t, oc) ==
    LET l == LaunchFrom(t, oc, 1, <<>>)
    IN  IF l.thrown
        THEN [kind |-> "rejected", out |-> EmptyMap, ps |-> l.ps]
        ELSE [kind |-> AwaitFrom(l.ps, 1, EmptyMap).kind,
              out  |-> AwaitFrom(l.ps, 1, EmptyMap).out,
              ps   |-> l.ps]

\* the promises of an analysis whose python process has reported
ResolvePy(ps) ==
    [k \in DOMAIN ps |->
        IF ps[k].st = "pending"
        THEN [ext |-> ".py", st |-> "resolved", val |-> "python"]
        ELSE ps[k]]

\* ------------------------------------------------- Clone.analyseCommits
\* the record the analyser returns
AnalyserRecord(c, valuesByExt) ==
    [commit_id |-> c, commit_date |-> DateOf(c), valuesByExt |-> valuesByExt]

\* the record the catcher of analyseCommits returns
CatcherRecord(c) ==
    [commit_id |-> c, commit_date |-> DateOf(c), valuesByExt |-> EmptyMap]

\* --------------------------------------------------- Clone.foreachCommit
Running == pc \in {"resetting", "listing", "analysing"}

\* results.push(result); i++; and the reset of the next commit is called
Push(result) ==
    /\ results' = Append(results, result)
    /\ i' = i + 1
    /\ promises' = <<>>
    /\ pc' = IF i + 1 > Len(commits) THEN "done" ELSE "resetting"

\* the action promise has settled: pushed, caught, or the walk rejects
Settled(kind, out) ==
    IF kind = "resolved"
    THEN Push(AnalyserRecord(commits[i], out))
    ELSE IF catcher
    THEN Push(CatcherRecord(commits[i]))
    ELSE \* catcher is undefined: calling it throws, the walk rejects
         /\ pc' = "rejected"
         /\ promises' = <<>>
         /\ UNCHANGED <<results, i>>

\* foreachCommit is called: up to the first Git.Reset.reset
ForeachCommit ==
    /\ pc = "start"
    /\ pc' = IF commits = <<>> THEN "done" ELSE "resetting"
    /\ UNCHANGED <<commits, catcher, i, results, tree, promises, procs, resetFailed, notWalk>>

\* Git.Reset.reset resolves: the action starts and lists the files
ResetOk ==
    /\ pc = "resetting"
    /\ tree' = commits[i]
    /\ pc' = "listing"
    /\ UNCHANGED <<commits, catcher, i, results, promises, procs, resetFailed, notWalk>>

\* Git.Reset.reset rejects: the await throws outside any catch
ResetFail ==
    /\ pc = "resetting"
    /\ pc' = "rejected"
    /\ resetFailed' = resetFailed \cup {i}
    /\ UNCHANGED <<commits, catcher, i, results, tree, promises, procs, notWalk>>

\* dir.promiseFiles resolves: the groups are built and the extractors are
\* launched and awaited up to the first promise that is still pending
Launch ==
    /\ pc = "listing"
    /\ \E oc \in LaunchChoices(TreeOf(tree)) :
         LET r == StaticAnalysis(TreeOf(tree), oc)
             spawned == {[idx |-> i, phase |-> "reading"] :
                            k \in {n \in DOMAIN r.ps : r.ps[n].st = "pending"}}
         IN  /\ procs' = procs \cup spawned
             /\ IF r.kind = "pending"
                THEN /\ pc' = "analysing"
                     /\ promises' = r.ps
                     /\ UNCHANGED <<results, i>>
                ELSE Settled(r.kind, r.out)
    /\ UNCHANGED <<commits, catcher, tree, resetFailed, notWalk>>

\* the promise of the python extractor of the running analysis
PyIndex == CHOOSE k \in DOMAIN promises : promises[k].st = "pending"

Awaited(p) == pc = "analysing" /\ p.idx = i

\* the process writes its JSON report to stdout: resolve(JSON.parse(bytes))
PyStdout(p) ==
    /\ pc \notin {"crashed"}
    /\ p \in procs /\ p.phase = "reading"
    /\ procs' = (procs \ {p}) \cup {[p EXCEPT !.phase = "reported"]}
    /\ IF Awaited(p)
       THEN LET ps == [promises EXCEPT ![PyIndex] =
                          [ext |-> ".py", st |-> "resolved", val |-> "python"]]
                r  == AwaitFrom(ps, 1, EmptyMap)
            IN  Settled(r.kind, r.out)
       ELSE UNCHANGED <<results, i, pc, promises>>
    /\ UNCHANGED <<commits, catcher, tree, resetFailed, notWalk>>

\* the process writes JSON to stderr: reject(JSON.parse(bytes))
PyStderr(p) ==
    /\ pc \notin {"crashed"}
    /\ p \in procs /\ p.phase = "reading"
    /\ procs' = (procs \ {p}) \cup {[p EXCEPT !.phase = "reported"]}
    /\ IF Awaited(p)
       THEN LET ps == [promises EXCEPT ![PyIndex] =
                          [ext |-> ".py", st |-> "rejected", val |-> "error"]]
                r  == AwaitFrom(ps, 1, EmptyMap)
            IN  Settled(r.kind, r.out)
       ELSE UNCHANGED <<results, i, pc, promises>>
    /\ UNCHANGED <<commits, catcher, tree, resetFailed, notWalk>>

\* the process writes bytes that are not JSON (a traceback): JSON.parse
\* throws inside the 'data' listener and nothing catches it
PyGarbage(p) ==
    /\ Running
    /\ p \in procs /\ p.phase = "reading"
    /\ procs' = (procs \ {p}) \cup {[p EXCEPT !.phase = "reported"]}
    /\ pc' = "crashed"
    /\ UNCHANGED <<commits, catcher, i, results, tree, promises, resetFailed, notWalk>>

\* the process exits; nothing listens to 'exit' or 'close'
PyExit(p) ==
    /\ p \in procs
    /\ procs' = procs \ {p}
    /\ UNCHANGED <<commits, catcher, i, results, pc, tree, promises, resetFailed, notWalk>>

WalkNext ==
    \/ ForeachCommit
    \/ ResetOk
    \/ ResetFail
    \/ Launch
    \/ \E p \in procs : PyStdout(p)
    \/ \E p \in procs : PyStderr(p)
    \/ \E p \in procs : PyGarbage(p)
    \/ \E p \in procs : PyExit(p)

\* ------------------------------------------- the incremental selection
MaxDate == 3

Dates == 1 .. MaxDate

\* getLastCommit() found no row
Null == [commit_id |-> 0, commit_date |-> 0]

Histories ==
    {h \in SeqsOver([id : CommitIds, date : Dates], MaxCommits) :
        \A a, b \in DOMAIN h : a # b => h[a].id # h[b].id}

\* a comparison that admits a commit of the same date
IsNewOrSame(commit, date) == commit.date >= date

\* isNew: commit.date() > date
IsNew(commit, date) == commit.date > date

\* Array.prototype.reverse
Reverse(s) == [k \in 1 .. Len(s) |-> s[Len(s) + 1 - k]]

\* Array.prototype.filter with isNew
FilterNew(s, date) ==
    LET Test(c) == IsNew(c, date) IN SelectSeq(s, Test)

\* Data.analyse: newCommits
DataNewCommits(all, last) ==
    Reverse(IF last # Null THEN FilterNew(all, last.commit_date) ELSE all)

\* Clone.commitsAfter(date); date is undefined when last is Null
CloneCommitsAfter(all, last) ==
    IF last = Null THEN all ELSE Reverse(FilterNew(all, last.commit_date))

SelectNewCommits ==
    /\ "newCommits" \notin selected
    /\ newCommits' = DataNewCommits(allCommits, lastCommit)
    /\ selected' = selected \cup {"newCommits"}
    /\ UNCHANGED <<allCommits, lastCommit, after, notSel>>

CommitsAfter ==
    /\ "commitsAfter" \notin selected
    /\ after' = CloneCommitsAfter(allCommits, lastCommit)
    /\ selected' = selected \cup {"commitsAfter"}
    /\ UNCHANGED <<allCommits, lastCommit, newCommits, notSel>>

SelNext ==
    \/ SelectNewCommits
    \/ CommitsAfter

\* ------------------------------------------------------- the Database
MaxRuns == 2

\* the number of commits of the repository the runs analyse
HistoryLen == 3

Runs == 1 .. MaxRuns

\* the id getRepoId resolves to for the one repository under analysis
RepoId == 1

\* metrics.byName: of the metric names the model follows, the one that
\* schema.sql seeds into MetricTypes, with its id
MetricsByName == ("numberOfLines" :> 2)

\* The metrics of a report, in the order of its properties. The model follows
\* two of them: numberOfLines, a seeded metric type, and cyclomatic, a name
\* that only the javascript report has and that schema.sql does not seed.
StaticValues(val) ==
    CASE val = "javascript" ->
            << [type |-> "cyclomatic",    value |-> 1],
               [type |-> "numberOfLines", value |-> 1] >>
      [] val = "python" ->
            << [type |-> "numberOfLines", value |-> 1] >>
      [] OTHER ->
            << [type |-> "numberOfLines", value |-> 2] >>

\* client.getMetaAnalysis: the issue counts aligned to the commit
MetaValues(c) == << [type |-> "totalIssues", value |-> c] >>

\* Date.parse(commit_date): through Date.prototype.toString, whole seconds
DateParse(d) == (d \div 1000) * 1000

\* the static metrics alone
StaticOnly(static, meta) == static

\* {...staticValues, ...meta[commit_id]}: a meta metric replaces a static
\* metric of the same name in place, the others are appended
MergeValues(static, meta) ==
    LET metaTypes == {meta[k].type : k \in DOMAIN meta}
        Over(v) == IF v.type \in metaTypes
                   THEN CHOOSE m \in Elems(meta) : m.type = v.type
                   ELSE v
        staticTypes == {static[k].type : k \in DOMAIN static}
        Fresh(m) == m.type \notin staticTypes
    IN  [k \in DOMAIN static |-> Over(static[k])] \o SelectSeq(meta, Fresh)

\* the rows of one extension of one commit
RowsOfExt(rec, ext) ==
    LET mv == MergeValues(StaticValues(rec.valuesByExt[ext]), MetaValues(rec.commit_id))
    IN  [k \in DOMAIN mv |->
            [repo_id |-> RepoId, commit_id |-> rec.commit_id,
             commit_date |-> DateParse(rec.commit_date), file_extension |-> ext,
             metric_type |-> mv[k].type, metric_value |-> mv[k].value]]

RECURSIVE RowsOfExts(_, _)
RowsOfExts(rec, exts) ==
    IF exts = <<>> THEN <<>>
    ELSE RowsOfExt(rec, Head(exts)) \o RowsOfExts(rec, Tail(exts))

\* Object.entries(valuesByExt): the extensions in insertion order
ExtsOf(rec) ==
    LET Has(e) == e \in DOMAIN rec.valuesByExt
    IN  SelectSeq(TreeOf(rec.commit_id), Has)

RECURSIVE NewAnalyses(_)
\* Data.analyse: the flat list of rows of the static results
NewAnalyses(static) ==
    IF static = <<>> THEN <<>>
    ELSE RowsOfExts(Head(static), ExtsOf(Head(static))) \o NewAnalyses(Tail(static))

\* insertValues: "only add defined metrics", with the id of the metric type
Defined(rows) ==
    LET Known(r) == r.metric_type \in DOMAIN MetricsByName
        kept == SelectSeq(rows, Known)
    IN  [k \in DOMAIN kept |->
            [repo_id |-> kept[k].repo_id, commit_id |-> kept[k].commit_id,
             commit_date |-> kept[k].commit_date,
             file_extension |-> kept[k].file_extension,
             metric_type_id |-> MetricsByName[kept[k].metric_type],
             metric_value |-> kept[k].metric_value]]

\* UNIQUE(repo_id, commit_id, file_extension, metric_type_id)
KeyOf(row) == <<row.repo_id, row.commit_id, row.file_extension, row.metric_type_id>>

\* whether the UNIQUE constraint lets the row into the table
Absent(table, row) == \A k \in DOMAIN table : KeyOf(table[k]) # KeyOf(row)

\* INSERT INTO a table without the UNIQUE constraint
InsertAlways(table, row) == Append(table, row)

\* INSERT OR IGNORE INTO MetricValues
InsertOrIgnore(table, row) ==
    IF Absent(table, row) THEN Append(table, row) ELSE table

\* getLastCommit: ORDER BY commit_date DESC LIMIT 1, any row of the last date
LastCommits(table) ==
    IF table = <<>> THEN {Null}
    ELSE {[commit_id |-> table[k].commit_id, commit_date |-> table[k].commit_date] :
            k \in {n \in DOMAIN table :
                     \A m \in DOMAIN table : table[m].commit_date <= table[n].commit_date}}

\* headCommitHistory(): the commits of the repository from HEAD, newest first
HeadCommitHistory ==
    [k \in 1 .. HistoryLen |->
        [id |-> HistoryLen + 1 - k, date |-> DateOf(HistoryLen + 1 - k)]]

\* the reports one commit's analysis can resolve to when its python process
\* is spawned and reports, whatever the other extractors do
PossibleValues(c) ==
    {AwaitFrom(ResolvePy(StaticAnalysis(TreeOf(c), oc).ps), 1, EmptyMap).out :
        oc \in {o \in LaunchChoices(TreeOf(c)) :
                  /\ ~LaunchFrom(TreeOf(c), o, 1, <<>>).thrown
                  /\ \A k \in DOMAIN TreeOf(c) :
                        /\ PromiseOf(TreeOf(c)[k], o[k]).st # "rejected"
                        /\ TreeOf(c)[k] = ".py" => o[k] = "ok"}}

\* a read of every row of the table, whatever its date
GetAllValues(table, end_commit) ==
    LET NameOf(id) == CHOOSE n \in DOMAIN MetricsByName : MetricsByName[n] = id
    IN  [k \in DOMAIN table |->
            [repo_id |-> table[k].repo_id, commit_id |-> table[k].commit_id,
             commit_date |-> table[k].commit_date,
             file_extension |-> table[k].file_extension,
             metric_type |-> NameOf(table[k].metric_type_id),
             metric_value |-> table[k].metric_value]]

\* getValuesUntil: the rows of the table up to the date of end_commit, with
\* the name of their metric type, newest first; none when there is no commit
GetValuesUntil(table, end_commit) ==
    IF end_commit = Null THEN <<>>
    ELSE LET Until(row) == row.commit_date <= end_commit.commit_date
             NameOf(id) == CHOOSE n \in DOMAIN MetricsByName : MetricsByName[n] = id
             found == SelectSeq(table, Until)
             byDate == SortSeq(found, LAMBDA a, b : a.commit_date > b.commit_date)
         IN  [k \in DOMAIN byDate |->
                [repo_id |-> byDate[k].repo_id, commit_id |-> byDate[k].commit_id,
                 commit_date |-> byDate[k].commit_date,
                 file_extension |-> byDate[k].file_extension,
                 metric_type |-> NameOf(byDate[k].metric_type_id),
                 metric_value |-> byDate[k].metric_value]]

IdleRun ==
    [pc |-> "idle", lastCommit |-> Null, newCommits |-> <<>>, static |-> <<>>,
     newAnalyses |-> <<>>, after |-> {}, read |-> FALSE, oldAnalyses |-> <<>>,
     results |-> <<>>]

\* data.analyse() is called; the runs that had returned by then are noted
Analyse(r) ==
    /\ runs[r].pc = "idle"
    /\ \A q \in Runs : q < r => runs[q].pc # "idle"
    /\ runs' = [runs EXCEPT ![r].pc = "lastCommit",
                            ![r].after = {q \in Runs : runs[q].pc = "returned"}]
    /\ UNCHANGED <<MetricValues, stmt, inserted, firstWritten, notData>>

\* the query of getLastCommit runs; newCommits is selected from the history
GetLastCommit(r) ==
    /\ runs[r].pc = "lastCommit"
    /\ \E last \in LastCommits(MetricValues) :
         runs' = [runs EXCEPT ![r].pc = "static",
                              ![r].lastCommit = last,
                              ![r].newCommits = DataNewCommits(HeadCommitHistory, last)]
    /\ UNCHANGED <<MetricValues, stmt, inserted, firstWritten, notData>>

\* newStatic: foreachCommit without a catcher resets and analyses the next
\* commit; a reset or an extractor that fails rejects the walk and the run
StaticStep(r) ==
    /\ runs[r].pc = "static"
    /\ Len(runs[r].static) < Len(runs[r].newCommits)
    /\ LET c == runs[r].newCommits[Len(runs[r].static) + 1].id
       IN  \/ \E v \in PossibleValues(c) :
                runs' = [runs EXCEPT ![r].static = Append(@, AnalyserRecord(c, v))]
           \/ runs' = [runs EXCEPT ![r].pc = "rejected", ![r].static = <<>>]
    /\ UNCHANGED <<MetricValues, stmt, inserted, firstWritten, notData>>

\* newAnalyses resolves: the rows are assembled and db.insertValues(values)
\* hands the defined ones to its prepared statement; nothing awaits them
InsertValues(r) ==
    /\ runs[r].pc = "static"
    /\ Len(runs[r].static) = Len(runs[r].newCommits)
    /\ runs' = [runs EXCEPT ![r].pc = "merge",
                            ![r].newAnalyses = NewAnalyses(runs[r].static),
                            ![r].static = <<>>,
                            ![r].newCommits = <<>>]
    /\ stmt' = [stmt EXCEPT ![r] = Defined(NewAnalyses(runs[r].static))]
    /\ UNCHANGED <<MetricValues, inserted, firstWritten, notData>>

\* oldAnalyses: the query of getValuesUntil runs, at some moment after the
\* last commit is known
GetOldAnalyses(r) ==
    /\ runs[r].pc \in {"static", "merge"}
    /\ ~runs[r].read
    /\ runs' = [runs EXCEPT ![r].read = TRUE,
                            ![r].oldAnalyses = GetValuesUntil(MetricValues, runs[r].lastCommit)]
    /\ UNCHANGED <<MetricValues, stmt, inserted, firstWritten, notData>>

\* "merge new and old analyses": analyse() returns [...oldAnalyses,
\* ...newAnalyses]
Return(r) ==
    /\ runs[r].pc = "merge"
    /\ runs[r].read
    /\ runs' = [runs EXCEPT ![r].pc = "returned",
                            ![r].results = runs[r].oldAnalyses \o runs[r].newAnalyses]
    /\ UNCHANGED <<MetricValues, stmt, inserted, firstWritten, notData>>

\* sqlite runs the next INSERT OR IGNORE of the statement of run r
DbRun(r) ==
    /\ stmt[r] # <<>>
    /\ LET row == Head(stmt[r])
       IN  /\ MetricValues' = InsertOrIgnore(MetricValues, row)
           /\ inserted' = [inserted EXCEPT ![r] =
                              @ + Len(InsertOrIgnore(MetricValues, row)) - Len(MetricValues)]
           /\ firstWritten' = IF KeyOf(row) \in DOMAIN firstWritten THEN firstWritten
                              ELSE firstWritten @@ (KeyOf(row) :> row.metric_value)
    /\ stmt' = [stmt EXCEPT ![r] = Tail(@)]
    /\ UNCHANGED <<runs, notData>>

DataNext ==
    \/ \E r \in Runs : Analyse(r)
    \/ \E r \in Runs : GetLastCommit(r)
    \/ \E r \in Runs : StaticStep(r)
    \/ \E r \in Runs : InsertValues(r)
    \/ \E r \in Runs : GetOldAnalyses(r)
    \/ \E r \in Runs : Return(r)
    \/ \E r \in Runs : DbRun(r)

\* ------------------------------------------------------ parallelAnalysis
MaxCpus == 2

\* `${n}`
Digits == <<"0", "1", "2", "3", "4", "5", "6", "7", "8", "9">>

NumString(n) == Digits[n + 1]

\* path.join(__dirname, 'repos', `${n}`, data.owner, data.name)
RepoPath(n) == <<"repos", NumString(n), "owner", "name">>

\* Clone.init(url): path.join(root, owner, name) with the default root,
\* path.join(__dirname, 'repos', '0')
DefaultClonePath == <<"repos", "0", "owner", "name">>

\* Clone.init(url, {root}) with a root of the caller's
CustomClonePath == <<"clones", "owner", "name">>

\* Math.ceil(a / b)
Ceil(a, b) == (a + b - 1) \div b

\* a loop that steps by one: the chunk of partition n is the list from n on
TailChunk(ids, cpus, n) == SubSeq(ids, n + 1, Len(ids))

\* src/src/parallel.js: "split commits into alternating equal sized chunks";
\* the chunk of partition n: commit_ids[n], commit_ids[n + n_cpus], ...
AlternatingChunk(ids, cpus, n) ==
    LET At(k) == ids[n + 1 + (k - 1) * cpus]
        len == IF n < Len(ids) THEN Ceil(Len(ids) - n, cpus) ELSE 0
    IN  [k \in 1 .. len |-> At(k)]

\* the other version of the loop: "split commits into equal sized chunks";
\* the chunk of partition n: commit_ids.slice(n * size, n * size + size)
ContiguousChunk(ids, cpus, n) ==
    LET size == Ceil(Len(ids), cpus)
        last == IF n * size + size < Len(ids) THEN n * size + size ELSE Len(ids)
    IN  SubSeq(ids, n * size + 1, last)

\* how many times the loop that builds params runs
Partitions(pol, ids, cpus) ==
    IF pol = "alternating" THEN cpus
    ELSE IF Len(ids) = 0 THEN 0
    ELSE Ceil(Len(ids), Ceil(Len(ids), cpus))

Chunk(pol, ids, cpus, n) ==
    IF pol = "alternating" THEN AlternatingChunk(ids, cpus, n)
    ELSE ContiguousChunk(ids, cpus, n)

\* the record Clone.analyseCommits yields for a commit whose extractors all
\* succeed
WalkRecord(c) ==
    LET allOk == [k \in DOMAIN TreeOf(c) |-> "ok"]
        ps == ResolvePy(StaticAnalysis(TreeOf(c), allOk).ps)
    IN  AnalyserRecord(c, AwaitFrom(ps, 1, EmptyMap).out)

\* one walk of foreachCommit over the list
SingleWalk(ids) == [k \in DOMAIN ids |-> WalkRecord(ids[k])]

RECURSIVE Concat(_)
\* results.push(...result) for each result in turn
Concat(ss) == IF ss = <<>> THEN <<>> ELSE Head(ss) \o Concat(Tail(ss))

\* the chronological lists of commit ids
Chronological ==
    {s \in DistinctSeqs(CommitIds, MaxCommits) :
        \A a, b \in DOMAIN s : a < b => DateOf(s[a]) < DateOf(s[b])}

\* one turn of the loop that builds params: the chunk, the path, and
\* Clone.init(data.clone.path, {clonePath: repo_path}), which pulls into the
\* directory when it exists and clones into it when it does not
CloneInit ==
    /\ parPc = "cloning"
    /\ Len(params) < Partitions(policy, commit_ids, n_cpus)
    /\ LET n == Len(params)
       IN  /\ params' = Append(params, [path |-> RepoPath(n),
                                        commit_ids |-> Chunk(policy, commit_ids, n_cpus, n)])
           /\ dirs' = dirs \cup {RepoPath(n)}
    /\ UNCHANGED <<commit_ids, n_cpus, policy, basePath, parPc, workers,
                   partition, exitSeen, merged, notPar>>

\* Clone.init rejects (the clone or the pull fails): parallelAnalysis rejects
CloneFails ==
    /\ parPc = "cloning"
    /\ Len(params) < Partitions(policy, commit_ids, n_cpus)
    /\ parPc' = "rejected"
    /\ UNCHANGED <<commit_ids, n_cpus, policy, basePath, params, dirs, workers,
                   partition, exitSeen, merged, notPar>>

\* "fork analysis into separate processes": fork, send, promisify, for each
\* param, then await Promise.all(promises)
Fork ==
    /\ parPc = "cloning"
    /\ Len(params) = Partitions(policy, commit_ids, n_cpus)
    /\ workers' = [k \in DOMAIN params |-> "started"]
    /\ partition' = [k \in DOMAIN params |-> [st |-> "pending", value |-> <<>>]]
    /\ parPc' = "waiting"
    /\ UNCHANGED <<commit_ids, n_cpus, policy, basePath, params, dirs,
                   exitSeen, merged, notPar>>

\* the worker's process.on('message'): analyseCommits resolves and the
\* results are sent
WorkerSends(k) ==
    /\ k \in DOMAIN workers /\ workers[k] = "started"
    /\ workers' = [workers EXCEPT ![k] = "sent"]
    /\ UNCHANGED <<commit_ids, n_cpus, policy, basePath, params, dirs, parPc,
                   partition, exitSeen, merged, notPar>>

\* the worker's process.on('message'): analyseCommits rejects (a lookup or a
\* hard reset fails) and nothing catches it: depending on the Node version
\* the worker stays alive and silent, or exits
WorkerRejects(k) ==
    /\ k \in DOMAIN workers /\ workers[k] = "started"
    /\ \E w \in {"silent", "exited"} : workers' = [workers EXCEPT ![k] = w]
    /\ UNCHANGED <<commit_ids, n_cpus, policy, basePath, params, dirs, parPc,
                   partition, exitSeen, merged, notPar>>

\* the worker process dies before it has sent anything
WorkerCrashes(k) ==
    /\ k \in DOMAIN workers /\ workers[k] = "started"
    /\ workers' = [workers EXCEPT ![k] = "exited"]
    /\ UNCHANGED <<commit_ids, n_cpus, policy, basePath, params, dirs, parPc,
                   partition, exitSeen, merged, notPar>>

\* p.on('message'): resolve(msg); p.kill()
OnMessage(k) ==
    /\ k \in DOMAIN workers /\ workers[k] = "sent"
    /\ partition' = [partition EXCEPT ![k] =
                        [st |-> "resolved", value |-> SingleWalk(params[k].commit_ids)]]
    /\ workers' = [workers EXCEPT ![k] = "killed"]
    /\ UNCHANGED <<commit_ids, n_cpus, policy, basePath, params, dirs, parPc,
                   exitSeen, merged, notPar>>

\* p.on('error'): the process could not be spawned; reject(msg); p.kill()
OnError(k) ==
    /\ k \in DOMAIN workers /\ workers[k] = "started"
    /\ partition' = [partition EXCEPT ![k] = [st |-> "rejected", value |-> <<>>]]
    /\ workers' = [workers EXCEPT ![k] = "failed"]
    /\ UNCHANGED <<commit_ids, n_cpus, policy, basePath, params, dirs, parPc,
                   exitSeen, merged, notPar>>

\* the 'exit' event of a dead worker reaches the parent, which has registered
\* no listener for it
OnExit(k) ==
    /\ k \in DOMAIN workers /\ workers[k] = "exited"
    /\ k \notin exitSeen
    /\ exitSeen' = exitSeen \cup {k}
    /\ UNCHANGED <<commit_ids, n_cpus, policy, basePath, params, dirs, parPc,
                   workers, partition, merged, notPar>>

\* a merge that takes what the settled partitions resolved to, as
\* Promise.allSettled would give it
MergeSettled ==
    /\ parPc = "waiting"
    /\ \A k \in DOMAIN partition : partition[k].st # "pending"
    /\ merged' = Concat([k \in DOMAIN partition |-> partition[k].value])
    /\ parPc' = "returned"
    /\ UNCHANGED <<commit_ids, n_cpus, policy, basePath, params, dirs, workers,
                   partition, exitSeen, notPar>>

\* Promise.all resolves: "merge results"
Merge ==
    /\ parPc = "waiting"
    /\ \A k \in DOMAIN partition : partition[k].st = "resolved"
    /\ merged' = Concat([k \in DOMAIN partition |-> partition[k].value])
    /\ parPc' = "returned"
    /\ UNCHANGED <<commit_ids, n_cpus, policy, basePath, params, dirs, workers,
                   partition, exitSeen, notPar>>

\* Promise.all rejects with the first rejected partition
ParRejects ==
    /\ parPc = "waiting"
    /\ \E k \in DOMAIN partition : partition[k].st = "rejected"
    /\ parPc' = "rejected"
    /\ UNCHANGED <<commit_ids, n_cpus, policy, basePath, params, dirs, workers,
                   partition, exitSeen, merged, notPar>>

ParNext ==
    \/ CloneInit
    \/ CloneFails
    \/ Fork
    \/ \E k \in 1 .. MaxCpus : WorkerSends(k)
    \/ \E k \in 1 .. MaxCpus : WorkerRejects(k)
    \/ \E k \in 1 .. MaxCpus : WorkerCrashes(k)
    \/ \E k \in 1 .. MaxCpus : OnMessage(k)
    \/ \E k \in 1 .. MaxCpus : OnError(k)
    \/ \E k \in 1 .. MaxCpus : OnExit(k)
    \/ Merge
    \/ ParRejects

\* ------------------------------------------------- utils and helpers
MaxTime == 3

MaxIssues == 2

Times == 1 .. MaxTime

\* an issue as getAllIssues gives it: state is its state when it was fetched,
\* closedAt is null (0) while it is open
Issues ==
    {is \in [state : {"OPEN", "CLOSED"}, createdAt : Times, closedAt : 0 .. MaxTime] :
        IF is.state = "OPEN" THEN is.closedAt = 0 ELSE is.closedAt >= is.createdAt}

\* issues sorted by creation time
SortedIssues ==
    {s \in SeqsOver(Issues, MaxIssues) :
        \A a, b \in DOMAIN s : a < b => s[a].createdAt <= s[b].createdAt}

\* commits sorted oldest-first, the k-th with commit_id k
SortedCommits ==
    {c \in SeqsOver([commit_id : CommitIds, commit_date : Times], MaxCommits) :
        /\ \A k \in DOMAIN c : c[k].commit_id = k
        /\ \A a, b \in DOMAIN c : a < b => c[a].commit_date <= c[b].commit_date}

\* a tally that goes down with an issue
CountDown(tally, issue) ==
    [totalIssues |-> tally.totalIssues - 1,
     openIssues |-> tally.openIssues,
     closedIssues |-> tally.closedIssues]

\* totalIssues++; issues[offset].state === 'OPEN' ? openIssues++ : closedIssues++
Count(tally, issue) ==
    [totalIssues |-> tally.totalIssues + 1,
     openIssues |-> tally.openIssues + (IF issue.state = "OPEN" THEN 1 ELSE 0),
     closedIssues |-> tally.closedIssues + (IF issue.state = "OPEN" THEN 0 ELSE 1)]

RECURSIVE StepToNewIssues(_, _, _, _)
\* "step to new issues": the inner loop, offset counted from 0
StepToNewIssues(issues, commit_date, offset, tally) ==
    IF offset < Len(issues) /\ commit_date > issues[offset + 1].createdAt
    THEN StepToNewIssues(issues, commit_date, offset + 1,
                         Count(tally, issues[offset + 1]))
    ELSE [offset |-> offset, tally |-> tally]

RECURSIVE AlignFrom(_, _, _, _, _, _)
\* the loop over the commits from the k-th: results[commit_id] = the tally
AlignFrom(issues, cs, k, offset, tally, res) ==
    IF k > Len(cs) THEN res
    ELSE LET step == StepToNewIssues(issues, cs[k].commit_date, offset, tally)
         IN  AlignFrom(issues, cs, k + 1, step.offset, step.tally,
                       (cs[k].commit_id :> step.tally) @@ res)

\* utils.alignIssuesToCommits(issues, commits)
AlignIssuesToCommits(issues, cs) ==
    AlignFrom(issues, cs, 1, 0,
              [totalIssues |-> 0, openIssues |-> 0, closedIssues |-> 0], EmptyMap)

MaxRows == 3

\* key: commit_id + ":" + file_extension
PointKey(row) == ToString(row.commit_id) \o ":" \o row.file_extension

\* except = [nameCol, valCol]
ExceptCols == {"metric_type", "metric_value"}

\* init: the row without its metric columns
InitPoint(row) == [k \in (DOMAIN row) \ ExceptCols |-> row[k]]

\* a point that keeps only the metric of the last row
ReplaceMetrics(point, row) ==
    (row.metric_type :> row.metric_value) @@ InitPoint(row)

\* points[id][row[nameCol]] = row[valCol]
AddMetric(point, row) ==
    (row.metric_type :> row.metric_value) @@ point

RECURSIVE PointsFrom(_, _, _)
\* the loop over the rows from the k-th; points holds the entries of the
\* object in insertion order
PointsFrom(rows, k, points) ==
    IF k > Len(rows) THEN points
    ELSE LET id == PointKey(rows[k])
             at == {n \in DOMAIN points : points[n].id = id}
         IN  IF at = {}
             THEN PointsFrom(rows, k + 1,
                     Append(points, [id |-> id,
                                     point |-> AddMetric(InitPoint(rows[k]), rows[k])]))
             ELSE PointsFrom(rows, k + 1,
                     [n \in DOMAIN points |->
                        IF n \in at
                        THEN [id |-> id, point |-> AddMetric(points[n].point, rows[k])]
                        ELSE points[n]])

\* utils.rows2points(rows): Object.values(points)
Rows2Points(rows) ==
    LET points == PointsFrom(rows, 1, <<>>)
    IN  [n \in DOMAIN points |-> points[n].point]

\* rows as Data.analyse merges them
Rows ==
    {[repo_id |-> RepoId, commit_id |-> c, commit_date |-> DateParse(DateOf(c)),
      file_extension |-> e, metric_type |-> t, metric_value |-> v] :
        c \in {1, 2}, e \in {".js", ".py"},
        t \in {"numberOfLines", "totalIssues"}, v \in {1, 2}}

\* lists of rows with one row per (commit, extension, metric name)
RowLists ==
    {rs \in SeqsOver(Rows, MaxRows) :
        \A a, b \in DOMAIN rs :
            (/\ rs[a].commit_id = rs[b].commit_id
             /\ rs[a].file_extension = rs[b].file_extension
             /\ rs[a].metric_type = rs[b].metric_type) => a = b}

\* the records a walk can hold for a commit: the analyser's, or the catcher's
RecordsOf(c) ==
    {AnalyserRecord(c, v) : v \in PossibleValues(c)} \cup {CatcherRecord(c)}

\* the results of walks over chronological lists of commits
StaticResults ==
    UNION {{st \in [DOMAIN cs -> UNION {RecordsOf(c) : c \in CommitIds}] :
               \A k \in DOMAIN cs : st[k] \in RecordsOf(cs[k])} :
           cs \in Chronological}

MaxFiles == 3

\* String.prototype.startsWith
StartsWith(str, prefix) ==
    Len(prefix) <= Len(str) /\ SubSeq(str, 1, Len(prefix)) = prefix

\* String.prototype.endsWith
EndsWith(str, suffix) ==
    Len(suffix) <= Len(str) /\ SubSeq(str, Len(str) - Len(suffix) + 1, Len(str)) = suffix

\* String.prototype.slice(n)
Slice(str, n) == SubSeq(str, n + 1, Len(str))

\* path.extname: from the last dot of the last portion of the path, and
\* empty when there is none or when it is the first character of the portion
ExtName(filepath) ==
    LET slashes == {k \in 1 .. Len(filepath) : SubSeq(filepath, k, k) = "/"}
        start == IF slashes = {} THEN 1
                 ELSE 1 + CHOOSE k \in slashes : \A m \in slashes : m <= k
        dots == {k \in start .. Len(filepath) : SubSeq(filepath, k, k) = "."}
        last == CHOOSE k \in dots : \A m \in dots : m <= k
    IN  IF dots = {} \/ last = start THEN ""
        ELSE SubSeq(filepath, last, Len(filepath))

\* a test of the first portion of the path against the directory names
IsInExcludedSegment(relativePath, excludedDirs) ==
    \E k \in DOMAIN excludedDirs :
        StartsWith(relativePath, excludedDirs[k] \o "/")

\* isInExcludedDir(relativePath, excludedDirs)
IsInExcludedDir(relativePath, excludedDirs) ==
    \E k \in DOMAIN excludedDirs : StartsWith(relativePath, excludedDirs[k])

\* hasExcludedExt(relativePath, excludedExts)
HasExcludedExt(relativePath, excludedExts) ==
    \E k \in DOMAIN excludedExts : EndsWith(relativePath, excludedExts[k])

\* "filter unwanted files": the two filters of staticAnalysis, each applied
\* when its list is not empty
FilterFiles(root, filepaths, excludedDirs, excludedExts) ==
    LET InDir(f) == ~IsInExcludedDir(Slice(f, Len(root) + 1), excludedDirs)
        InExt(f) == ~HasExcludedExt(Slice(f, Len(root) + 1), excludedExts)
        byDir == IF Len(excludedDirs) # 0 THEN SelectSeq(filepaths, InDir) ELSE filepaths
    IN  IF Len(excludedExts) # 0 THEN SelectSeq(byDir, InExt) ELSE byDir

RECURSIVE GroupFrom(_, _, _)
\* "group files by extension": the loop from the k-th file
GroupFrom(filepaths, k, fileByExt) ==
    IF k > Len(filepaths) THEN fileByExt
    ELSE LET ext == ExtName(filepaths[k])
             files == IF ext \in DOMAIN fileByExt THEN fileByExt[ext] ELSE <<>>
         IN  GroupFrom(filepaths, k + 1,
                       [e \in DOMAIN fileByExt \cup {ext} |->
                           IF e = ext THEN Append(files, filepaths[k])
                           ELSE fileByExt[e]])

\* the files of staticAnalysis by extension
FileByExt(root, filepaths, excludedDirs, excludedExts) ==
    GroupFrom(FilterFiles(root, filepaths, excludedDirs, excludedExts), 1, EmptyMap)

\* this.path
RootPath == "/repo"

\* the files dir.promiseFiles(this.path) can list
FilePaths ==
    {RootPath \o "/" \o rel :
        rel \in {".git/HEAD", ".github/a.js", "src/a.js", "src/b.js",
                 "src/c.py", "src/.env", "README"}}

\* the lists of files of a working tree
FileLists == DistinctSeqs(FilePaths, MaxFiles)

RECURSIVE SplitFrom(_, _, _)
\* String.prototype.split('/'): the parts of str from its k-th character, cur
\* being the part read so far
SplitFrom(str, k, cur) ==
    IF k > Len(str) THEN <<cur>>
    ELSE IF SubSeq(str, k, k) = "/" THEN <<cur>> \o SplitFrom(str, k + 1, "")
    ELSE SplitFrom(str, k + 1, cur \o SubSeq(str, k, k))

\* Array.prototype.indexOf, counted from 1, 0 when absent
IndexOf(arr, x) ==
    IF \E k \in DOMAIN arr : arr[k] = x
    THEN CHOOSE k \in DOMAIN arr : arr[k] = x /\ \A m \in 1 .. k - 1 : arr[m] # x
    ELSE 0

\* arr[k]: the element in a one-element list, the empty list when undefined
At(arr, k) == IF k \in DOMAIN arr THEN <<arr[k]>> ELSE <<>>

\* utils.parseURL(url)
ParseURL(url) ==
    LET url_parts == SplitFrom(url, 1, "")
        index == IndexOf(url_parts, "github.com")
    IN  IF index = 0
        THEN [thrown |-> TRUE, owner |-> <<>>, name |-> <<>>]
        ELSE [thrown |-> FALSE, owner |-> At(url_parts, index + 1),
              name |-> At(url_parts, index + 2)]

\* Clone.init(url) up to its first operation on a repository: parseURL and
\* path.join(root, owner, name), which throws on an undefined part
CloneInitStarts(url) ==
    /\ ~ParseURL(url).thrown
    /\ ParseURL(url).owner # <<>>
    /\ ParseURL(url).name # <<>>

\* new Data(url, db, options) followed by data.analyse(): the operations
\* started, in order, and how the error, if any, is raised
NewDataAnalyse(url, db, noClone) ==
    IF ParseURL(url).thrown
    THEN [started |-> <<>>, error |-> "thrown"]
    ELSE LET clone == IF ~noClone /\ CloneInitStarts(url) THEN <<"clone">> ELSE <<>>
         IN  IF ~db
             THEN \* db.getRepoId of undefined
                  [started |-> clone, error |-> "rejected"]
             ELSE IF ParseURL(url).owner = <<>> \/ ParseURL(url).name = <<>>
             THEN \* the SELECT finds nothing and the INSERT breaks NOT NULL
                  [started |-> clone \o <<"storage">>, error |-> "rejected"]
             ELSE IF noClone
             THEN \* clone is undefined in newCommits
                  [started |-> <<"storage">>, error |-> "rejected"]
             ELSE [started |-> clone \o <<"storage", "analysis">>, error |-> "none"]

\* the URLs of a request
Urls ==
    {"https://github.com/owner/name", "https://github.com/owner",
     "https://github.com", "https://gitlab.com/owner/name",
     "https://github.com//name", "github.com/owner/"}

\* the arguments a function is called with
\* --------------------------------------------------------- zip, uniques
MaxArrayLen == 2

\* what b[key] gives past the end of b
Undefined == 0

Arrays == SeqsOver(1 .. 2, MaxArrayLen)

\* two or three arrays
ArrayLists == {<<a, b>> : a \in Arrays, b \in Arrays}
              \cup {<<a, b, c>> : a \in Arrays, b \in Arrays, c \in {<<>>, <<1>>, <<2, 1>>}}

\* utils.js: function zip(a, b): one pair per key of a
Zip(arrays) ==
    LET a == arrays[1]
        b == arrays[2]
    IN  [key \in 1 .. Len(a) |->
            <<a[key], IF key <= Len(b) THEN b[key] ELSE Undefined>>]

RECURSIVE ZipFrom(_, _)
\* the loop of the variadic zip from `index` on: return at the first array
\* that has no element at index
ZipFrom(arrays, index) ==
    IF \E j \in DOMAIN arrays : ~(index <= Len(arrays[j]))
    THEN <<>>
    ELSE <<[j \in DOMAIN arrays |-> arrays[j][index]]>> \o ZipFrom(arrays, index + 1)

\* zip(...arrays)
ZipArrays(arrays) == ZipFrom(arrays, 1)

DuplicateLists == SeqsOver(1 .. 3, MaxArrayLen + 1)

RECURSIVE UniquesFrom(_, _, _)
\* duplicates.filter(item => seen.has(item) ? false : seen.add(item))
UniquesFrom(duplicates, k, seen) ==
    IF k > Len(duplicates) THEN <<>>
    ELSE IF duplicates[k] \in seen
         THEN UniquesFrom(duplicates, k + 1, seen)
         ELSE <<duplicates[k]>> \o UniquesFrom(duplicates, k + 1, seen \cup {duplicates[k]})

\* a filter that keeps an item unless it equals the item before it
AdjacentUniques(duplicates) ==
    LET keep == {k \in DOMAIN duplicates : k = 1 \/ duplicates[k] # duplicates[k - 1]}
        F[k \in 0 .. Len(duplicates)] ==
            IF k = 0 THEN <<>>
            ELSE IF k \in keep THEN Append(F[k - 1], duplicates[k]) ELSE F[k - 1]
    IN  F[Len(duplicates)]

\* utils.uniques
Uniques(duplicates) == UniquesFrom(duplicates, 1, {})

ArgsOf(f) ==
    CASE f = "alignIssuesToCommits" ->
            [issues : SortedIssues, commits : SortedCommits]
      [] f = "rows2points" -> [rows : RowLists]
      [] f = "newAnalyses" -> [static : StaticResults]
      [] f = "zip" -> [arrays : ArrayLists]
      [] f = "utils.zip" -> [arrays : ArrayLists]
      [] f = "uniques" -> [duplicates : DuplicateLists]
      [] f = "Data" -> [url : Urls, db : BOOLEAN, noClone : BOOLEAN]
      [] f = "fileByExt" ->
            [filepaths : FileLists,
             excludedDirs : {<<>>, <<".git">>, <<".git", "src">>},
             excludedExts : {<<>>, <<".py">>, <<".js", "ME">>}]

Functions == {"alignIssuesToCommits", "rows2points", "newAnalyses", "fileByExt",
              "Data", "zip", "utils.zip", "uniques"}

\* the function is called and returns
Align ==
    /\ fn = "alignIssuesToCommits" /\ ~returned
    /\ value' = AlignIssuesToCommits(args.issues, args.commits)
    /\ returned' = TRUE
    /\ UNCHANGED <<fn, args, notUtil>>

\* utils.rows2points(results) is called and returns
PivotRows ==
    /\ fn = "rows2points" /\ ~returned
    /\ value' = Rows2Points(args.rows)
    /\ returned' = TRUE
    /\ UNCHANGED <<fn, args, notUtil>>

\* the static results are expanded into rows and the rows into points
ExpandRows ==
    /\ fn = "newAnalyses" /\ ~returned
    /\ value' = [rows |-> NewAnalyses(args.static),
                 points |-> Rows2Points(NewAnalyses(args.static))]
    /\ returned' = TRUE
    /\ UNCHANGED <<fn, args, notUtil>>

\* staticAnalysis lists the files, filters them and groups them
GroupFiles ==
    /\ fn = "fileByExt" /\ ~returned
    /\ value' = FileByExt(RootPath, args.filepaths, args.excludedDirs, args.excludedExts)
    /\ returned' = TRUE
    /\ UNCHANGED <<fn, args, notUtil>>

\* a Data is constructed and analyse() is called on it
ConstructAndAnalyse ==
    /\ fn = "Data" /\ ~returned
    /\ value' = NewDataAnalyse(args.url, args.db, args.noClone)
    /\ returned' = TRUE
    /\ UNCHANGED <<fn, args, notUtil>>

\* zip of utils.js is called with the arrays
ZipCall ==
    /\ fn = "zip" /\ ~returned
    /\ value' = Zip(args.arrays)
    /\ returned' = TRUE
    /\ UNCHANGED <<fn, args, notUtil>>

\* the variadic utils.zip is called with the arrays
ZipArraysCall ==
    /\ fn = "utils.zip" /\ ~returned
    /\ value' = ZipArrays(args.arrays)
    /\ returned' = TRUE
    /\ UNCHANGED <<fn, args, notUtil>>

\* utils.uniques is called
UniquesCall ==
    /\ fn = "uniques" /\ ~returned
    /\ value' = Uniques(args.duplicates)
    /\ returned' = TRUE
    /\ UNCHANGED <<fn, args, notUtil>>

UtilNext ==
    \/ Align
    \/ PivotRows
    \/ ExpandRows
    \/ GroupFiles
    \/ ConstructAndAnalyse
    \/ ZipCall
    \/ ZipArraysCall
    \/ UniquesCall

\* ------------------------------------------------- overlapping requests
MaxRequests == 2

Requests == 1 .. MaxRequests

\* the URLs of two repositories
RequestUrls == {"https://github.com/owner/name", "https://github.com/owner/other"}

\* Clone.init(url): path.join(root, owner, name) with the default root
ClonePathOf(url) ==
    <<"repos", "0">> \o ParseURL(url).owner \o ParseURL(url).name

\* the rows of a repository
RowsOfRepo(table, url) ==
    {k \in DOMAIN table : /\ <<table[k].owner>> = ParseURL(url).owner
                          /\ <<table[k].name>> = ParseURL(url).name}

\* app.post('/analyse'): new Data(url, db) starts Clone.init(url), and
\* analyse() calls db.getRepoId
Post(r) ==
    /\ requests[r].pc = "idle"
    /\ requests' = [requests EXCEPT ![r].pc = "select",
                                    ![r].clonePath = ClonePathOf(requests[r].url)]
    /\ UNCHANGED <<Repositories, notReq>>

\* getRepoId: the SELECT runs; "get repo row if present"
SelectRepo(r) ==
    /\ requests[r].pc = "select"
    /\ LET there == RowsOfRepo(Repositories, requests[r].url)
       IN  requests' = IF there = {}
                       THEN [requests EXCEPT ![r].pc = "insert"]
                       ELSE [requests EXCEPT ![r].pc = "walk",
                                ![r].repo_id = Repositories[CHOOSE k \in there : TRUE].id]
    /\ UNCHANGED <<Repositories, notReq>>

\* getRepoId: "insert repo if not present"; the INSERT runs against
\* UNIQUE(owner, name) and gives stmt.lastID, or fails and the call rejects
InsertRepo(r) ==
    /\ requests[r].pc = "insert"
    /\ LET url == requests[r].url
       IN  IF RowsOfRepo(Repositories, url) = {}
           THEN /\ Repositories' = Append(Repositories,
                       [id |-> Len(Repositories) + 1,
                        owner |-> ParseURL(url).owner[1],
                        name |-> ParseURL(url).name[1]])
                /\ requests' = [requests EXCEPT ![r].pc = "walk",
                                                ![r].repo_id = Len(Repositories) + 1]
           ELSE /\ requests' = [requests EXCEPT ![r].pc = "rejected"]
                /\ UNCHANGED Repositories
    /\ UNCHANGED notReq

\* newStatic: foreachCommit calls Git.Reset.reset on the clone
StartReset(r) ==
    /\ requests[r].pc = "walk"
    /\ requests' = [requests EXCEPT ![r].pc = "resetting"]
    /\ UNCHANGED <<Repositories, notReq>>

\* the reset resolves and the analysis reads the working tree
StartAnalysis(r) ==
    /\ requests[r].pc = "resetting"
    /\ requests' = [requests EXCEPT ![r].pc = "analysing"]
    /\ UNCHANGED <<Repositories, notReq>>

\* the analysis of the last commit settles and the request is answered
Respond(r) ==
    /\ requests[r].pc = "analysing"
    /\ requests' = [requests EXCEPT ![r].pc = "done"]
    /\ UNCHANGED <<Repositories, notReq>>

ReqNext ==
    \/ \E r \in Requests : Post(r)
    \/ \E r \in Requests : SelectRepo(r)
    \/ \E r \in Requests : InsertRepo(r)
    \/ \E r \in Requests : StartReset(r)
    \/ \E r \in Requests : StartAnalysis(r)
    \/ \E r \in Requests : Respond(r)

\* ------------------------------------------------------ specifications
\* a walk is about to be made over some commits, with or without a catcher;
\* nothing else runs
WalkInit ==
    /\ commits \in DistinctSeqs(CommitIds, MaxCommits)
    /\ catcher \in BOOLEAN
    /\ i = 1
    /\ results = <<>>
    /\ pc = "start"
    /\ tree = 0
    /\ promises = <<>>
    /\ procs = {}
    /\ resetFailed = {}
    /\ allCommits = <<>> /\ lastCommit = Null /\ newCommits = <<>>
    /\ after = <<>> /\ selected = {}
    /\ MetricValues = <<>> /\ runs = <<>> /\ stmt = <<>> /\ inserted = <<>>
    /\ firstWritten = EmptyMap
    /\ commit_ids = <<>> /\ n_cpus = 0 /\ policy = "none" /\ basePath = <<>>
    /\ params = <<>> /\ dirs = {} /\ parPc = "idle" /\ workers = <<>>
    /\ partition = <<>> /\ exitSeen = {} /\ merged = <<>>
    /\ fn = "none" /\ args = <<>> /\ value = <<>> /\ returned = FALSE
    /\ Repositories = <<>> /\ requests = <<>>

\* a history and a last commit, or none, are about to be selected from;
\* nothing else runs
SelInit ==
    /\ allCommits \in Histories
    /\ lastCommit \in {Null} \cup [commit_id : {1}, commit_date : Dates]
    /\ newCommits = <<>>
    /\ after = <<>>
    /\ selected = {}
    /\ commits = <<>> /\ catcher = FALSE /\ i = 1 /\ results = <<>>
    /\ pc = "idle" /\ tree = 0 /\ promises = <<>> /\ procs = {}
    /\ resetFailed = {}
    /\ MetricValues = <<>> /\ runs = <<>> /\ stmt = <<>> /\ inserted = <<>>
    /\ firstWritten = EmptyMap
    /\ commit_ids = <<>> /\ n_cpus = 0 /\ policy = "none" /\ basePath = <<>>
    /\ params = <<>> /\ dirs = {} /\ parPc = "idle" /\ workers = <<>>
    /\ partition = <<>> /\ exitSeen = {} /\ merged = <<>>
    /\ fn = "none" /\ args = <<>> /\ value = <<>> /\ returned = FALSE
    /\ Repositories = <<>> /\ requests = <<>>

\* the table is empty and no run of Data.analyse has started; nothing else
\* runs
DataInit ==
    /\ MetricValues = <<>>
    /\ runs = [r \in Runs |-> IdleRun]
    /\ stmt = [r \in Runs |-> <<>>]
    /\ inserted = [r \in Runs |-> 0]
    /\ firstWritten = EmptyMap
    /\ commits = <<>> /\ catcher = FALSE /\ i = 1 /\ results = <<>>
    /\ pc = "idle" /\ tree = 0 /\ promises = <<>> /\ procs = {}
    /\ resetFailed = {}
    /\ allCommits = <<>> /\ lastCommit = Null /\ newCommits = <<>>
    /\ after = <<>> /\ selected = {}
    /\ commit_ids = <<>> /\ n_cpus = 0 /\ policy = "none" /\ basePath = <<>>
    /\ params = <<>> /\ dirs = {} /\ parPc = "idle" /\ workers = <<>>
    /\ partition = <<>> /\ exitSeen = {} /\ merged = <<>>
    /\ fn = "none" /\ args = <<>> /\ value = <<>> /\ returned = FALSE
    /\ Repositories = <<>> /\ requests = <<>>

\* parallelAnalysis is called with a chronological list, a number of
\* processes and the clone of its data argument; nothing else runs
ParInit ==
    /\ commit_ids \in Chronological
    /\ n_cpus \in 1 .. MaxCpus
    /\ policy \in {"alternating", "contiguous"}
    /\ basePath \in {DefaultClonePath, CustomClonePath}
    /\ params = <<>>
    /\ dirs = {basePath}
    /\ parPc = "cloning"
    /\ workers = <<>>
    /\ partition = <<>>
    /\ exitSeen = {}
    /\ merged = <<>>
    /\ commits = <<>> /\ catcher = FALSE /\ i = 1 /\ results = <<>>
    /\ pc = "idle" /\ tree = 0 /\ promises = <<>> /\ procs = {}
    /\ resetFailed = {}
    /\ allCommits = <<>> /\ lastCommit = Null /\ newCommits = <<>>
    /\ after = <<>> /\ selected = {}
    /\ MetricValues = <<>> /\ runs = <<>> /\ stmt = <<>> /\ inserted = <<>>
    /\ firstWritten = EmptyMap
    /\ fn = "none" /\ args = <<>> /\ value = <<>> /\ returned = FALSE
    /\ Repositories = <<>> /\ requests = <<>>

\* a function is about to be called with arguments of its domain; nothing
\* else runs
UtilInit ==
    /\ fn \in Functions
    /\ args \in ArgsOf(fn)
    /\ value = <<>>
    /\ returned = FALSE
    /\ commits = <<>> /\ catcher = FALSE /\ i = 1 /\ results = <<>>
    /\ pc = "idle" /\ tree = 0 /\ promises = <<>> /\ procs = {}
    /\ resetFailed = {}
    /\ allCommits = <<>> /\ lastCommit = Null /\ newCommits = <<>>
    /\ after = <<>> /\ selected = {}
    /\ MetricValues = <<>> /\ runs = <<>> /\ stmt = <<>> /\ inserted = <<>>
    /\ firstWritten = EmptyMap
    /\ commit_ids = <<>> /\ n_cpus = 0 /\ policy = "none" /\ basePath = <<>>
    /\ params = <<>> /\ dirs = {} /\ parPc = "idle" /\ workers = <<>>
    /\ partition = <<>> /\ exitSeen = {} /\ merged = <<>>
    /\ Repositories = <<>> /\ requests = <<>>

\* requests for one or two repositories are about to arrive, the table of
\* repositories being empty; nothing else runs
ReqInit ==
    /\ Repositories = <<>>
    /\ requests \in [Requests -> [pc : {"idle"}, url : RequestUrls,
                                   clonePath : {<<>>}, repo_id : {0}]]
    /\ commits = <<>> /\ catcher = FALSE /\ i = 1 /\ results = <<>>
    /\ pc = "idle" /\ tree = 0 /\ promises = <<>> /\ procs = {}
    /\ resetFailed = {}
    /\ allCommits = <<>> /\ lastCommit = Null /\ newCommits = <<>>
    /\ after = <<>> /\ selected = {}
    /\ MetricValues = <<>> /\ runs = <<>> /\ stmt = <<>> /\ inserted = <<>>
    /\ firstWritten = EmptyMap
    /\ commit_ids = <<>> /\ n_cpus = 0 /\ policy = "none" /\ basePath = <<>>
    /\ params = <<>> /\ dirs = {} /\ parPc = "idle" /\ workers = <<>>
    /\ partition = <<>> /\ exitSeen = {} /\ merged = <<>>
    /\ fn = "none" /\ args = <<>> /\ value = <<>> /\ returned = FALSE

SpecWalk == WalkInit /\ [][WalkNext]_vars

SpecSelect == SelInit /\ [][SelNext]_vars

SpecData == DataInit /\ [][DataNext]_vars

SpecPar == ParInit /\ [][ParNext]_vars

SpecUtil == UtilInit /\ [][UtilNext]_vars

SpecReq == ReqInit /\ [][ReqNext]_vars

\* every reset, listing and spawned process ends in some way, and a settled
\* promise resumes the walk
FairSpecWalk == SpecWalk /\ WF_vars(WalkNext)

\* the continuation of `await Promise.all(promises)` runs once the promise
\* has settled
FairSpecPar == SpecPar /\ WF_vars(ParRejects) /\ WF_vars(Merge)

\* ------------------------------------------------------------- claims

\* C1 (as claimed): whatever fails, and with or without a catcher, a walk
\* over N commits ends by returning N records, the k-th being the record of
\* the k-th input commit.
C1_WalkReturnsAllRecords ==
    pc \in {"done", "rejected", "crashed"} =>
        /\ pc = "done"
        /\ Len(results) = Len(commits)
        /\ \A k \in DOMAIN results : results[k].commit_id = commits[k]

\* C2 (as claimed): a commit whose hard reset failed gets a record with empty
\* metrics and an error marker, and the walk does not reject.
C2_CheckoutFailureIsRecorded ==
    \A k \in resetFailed :
        /\ pc # "rejected"
        /\ k <= Len(results) =>
              /\ results[k].valuesByExt = EmptyMap
              /\ "error" \in DOMAIN results[k]

\* the checkouts and the analyses of the clone that are in flight
InFlight ==
    (IF pc = "resetting" THEN {<<"checkout", i>>} ELSE {})
    \cup (IF pc \in {"listing", "analysing"} THEN {<<"analysis", i>>} ELSE {})
    \cup {<<"analysis", p.idx>> : p \in {q \in procs : q.phase = "reading"}}

\* C3 (as claimed): at every moment at most one checkout or analysis of the
\* clone is in flight: the checkout of the next commit starts only when the
\* analysis of the commit before has finished reading the tree.
C3_OneInFlight == Cardinality(InFlight) <= 1

\* every commit of the history when there is no last commit, and otherwise
\* the commits whose date is strictly greater than the last commit's date
SelectionOf(all, last) ==
    {all[k] : k \in {n \in DOMAIN all :
                        last = Null \/ all[n].date > last.commit_date}}

ExactlySelected(s) ==
    /\ Elems(s) = SelectionOf(allCommits, lastCommit)
    /\ Cardinality(Elems(s)) = Len(s)

\* C4: the selection of Data.analyse and of Clone.commitsAfter holds every
\* commit of the history when there is no last commit, and otherwise exactly
\* the commits whose date is strictly greater than the last commit's date,
\* each once.
C4_StrictlyNewer ==
    /\ "newCommits" \in selected => ExactlySelected(newCommits)
    /\ "commitsAfter" \in selected => ExactlySelected(after)

\* C4 witness: commits at dates 1 < 2 < 3, the last commit at date 2, and
\* both selections return exactly the commit at date 3.
C4_Witness ==
    /\ selected = {"newCommits", "commitsAfter"}
    /\ Len(allCommits) = 3
    /\ {allCommits[k].date : k \in DOMAIN allCommits} = {1, 2, 3}
    /\ lastCommit # Null /\ lastCommit.commit_date = 2
    /\ Len(newCommits) = 1 /\ newCommits[1].date = 3
    /\ after = newCommits

OldestFirst(s) ==
    \A a, b \in DOMAIN s : a < b => s[a].date <= s[b].date

\* C5 (as claimed): the selection is ordered oldest-first by date, whatever
\* the order of the history and with or without a last commit.
C5_OldestFirst ==
    /\ "newCommits" \in selected => OldestFirst(newCommits)
    /\ "commitsAfter" \in selected => OldestFirst(after)

\* C6 (as claimed): a run of Data.analyse that starts after another run has
\* returned, over the same history, inserts no row.
C6_SecondRunInsertsNothing ==
    \A r \in Runs : runs[r].after # {} => inserted[r] = 0

\* C7: the table never holds two rows with the same (repo id, commit id,
\* file extension, metric type), and the value it holds for a key is the
\* value of the first write of that key that was executed.
C7_FirstWriteWins ==
    /\ \A a, b \in DOMAIN MetricValues :
          KeyOf(MetricValues[a]) = KeyOf(MetricValues[b]) => a = b
    /\ \A k \in DOMAIN MetricValues :
          /\ KeyOf(MetricValues[k]) \in DOMAIN firstWritten
          /\ MetricValues[k].metric_value = firstWritten[KeyOf(MetricValues[k])]
    /\ Len(MetricValues) = Cardinality(DOMAIN firstWritten)

\* C7 witness: all the writes of two runs were executed, and for some key the
\* table holds the value one run wrote while the other run wrote another value
C7_Witness ==
    /\ \A r \in Runs : runs[r].pc = "returned" /\ stmt[r] = <<>>
    /\ \E r \in Runs : \E n \in DOMAIN Defined(runs[r].newAnalyses) :
         \E k \in DOMAIN MetricValues :
            /\ KeyOf(MetricValues[k]) = KeyOf(Defined(runs[r].newAnalyses)[n])
            /\ MetricValues[k].metric_value # Defined(runs[r].newAnalyses)[n].metric_value

\* C8 (as claimed): the merged result of parallelAnalysis lists the commits
\* in the order, and with the content, of one walk over the whole list.
C8_MergedAsSingleWalk ==
    parPc = "returned" => merged = SingleWalk(commit_ids)

\* C9 (as claimed): no two partitions share a working tree, and no partition
\* works in the repository the clones are made from.
C9_ExclusiveClones ==
    /\ \A k, l \in DOMAIN params : k # l => params[k].path # params[l].path
    /\ \A k \in DOMAIN params : params[k].path # basePath

\* C10 (as claimed): once the parent has processed the exit of a worker that
\* never sent its response, that partition's promise is rejected.
C10_ExitRejectsPartition ==
    \A k \in exitSeen : partition[k].st = "rejected"

SomeRejected == \E k \in DOMAIN partition : partition[k].st = "rejected"

\* C11: while a partition is rejected parallelAnalysis has not returned, and
\* a rejected partition leads to the rejection of parallelAnalysis.
C11_RejectionPropagates ==
    /\ [](SomeRejected => parPc # "returned")
    /\ SomeRejected ~> (parPc = "rejected")

\* C11 witness: parallelAnalysis has rejected with one partition rejected
\* and another resolved with its results.
C11_Witness ==
    /\ parPc = "rejected"
    /\ SomeRejected
    /\ \E k \in DOMAIN partition :
          partition[k].st = "resolved" /\ partition[k].value # <<>>

Aligned == fn = "alignIssuesToCommits" /\ returned

\* the issues created at or before a date
CreatedBy(date) ==
    {j \in DOMAIN args.issues : args.issues[j].createdAt <= date}

\* C12 (as claimed): each commit gets as total the number of issues created
\* at or before its date, an issue created exactly at its date included,
\* split into open and closed by the state of the issue.
C12_InclusiveTotals ==
    Aligned =>
        \A k \in DOMAIN args.commits :
            LET by == CreatedBy(args.commits[k].commit_date)
                tally == value[args.commits[k].commit_id]
            IN  /\ tally.totalIssues = Cardinality(by)
                /\ tally.openIssues =
                       Cardinality({j \in by : args.issues[j].state = "OPEN"})
                /\ tally.closedIssues =
                       Cardinality({j \in by : args.issues[j].state # "OPEN"})

\* C13: over commits sorted by date and issues sorted by creation time, the
\* total of a commit is at most the total of every later commit.
C13_TotalsNonDecreasing ==
    Aligned =>
        \A a, b \in DOMAIN args.commits :
            a < b => value[args.commits[a].commit_id].totalIssues
                        <= value[args.commits[b].commit_id].totalIssues

\* C13 witness: two commits of different dates were aligned and the later
\* one has a greater total than the earlier one.
C13_Witness ==
    /\ Aligned
    /\ \E a, b \in DOMAIN args.commits :
          /\ args.commits[a].commit_date < args.commits[b].commit_date
          /\ value[args.commits[a].commit_id].totalIssues
                < value[args.commits[b].commit_id].totalIssues

\* C14 (as claimed): of the issues counted for a commit, those closed at or
\* before the commit's date are its closed count and the others, closed
\* later or never, are its open count.
C14_StateAsOfCommit ==
    Aligned =>
        \A k \in DOMAIN args.commits :
            LET tally == value[args.commits[k].commit_id]
                closed == {j \in 1 .. tally.totalIssues :
                             /\ args.issues[j].closedAt # 0
                             /\ args.issues[j].closedAt <= args.commits[k].commit_date}
            IN  /\ tally.closedIssues = Cardinality(closed)
                /\ tally.openIssues = tally.totalIssues - Cardinality(closed)

\* the rows of a commit and an extension in a list of rows
RowsAt(rows, c, ext) ==
    {k \in DOMAIN rows : rows[k].commit_id = c /\ rows[k].file_extension = ext}

\* the rows assembled from the static records hold, for every extension of
\* every record, each meta metric of the commit with its value, and no two
\* rows of one (commit, extension, metric name)
MetaOnEveryExt(static, rows) ==
    /\ \A n \in DOMAIN static : \A ext \in DOMAIN static[n].valuesByExt :
          \A m \in Elems(MetaValues(static[n].commit_id)) :
             \E k \in RowsAt(rows, static[n].commit_id, ext) :
                rows[k].metric_type = m.type /\ rows[k].metric_value = m.value
    /\ \A a, b \in DOMAIN rows :
          /\ rows[a].commit_id = rows[b].commit_id
          /\ rows[a].file_extension = rows[b].file_extension
          /\ rows[a].metric_type = rows[b].metric_type
          => a = b

\* C15: when Data.analyse assembles its new rows, every meta metric of a
\* commit is in them with the same value under every extension of the
\* commit's static result, and there is one row per (commit, extension,
\* metric name).
C15_MetaOnEveryExtension ==
    [][\A r \in DOMAIN runs :
          (r \in DOMAIN runs' /\ runs[r].pc = "static" /\ runs'[r].pc = "merge")
            => MetaOnEveryExt(runs[r].static, runs'[r].newAnalyses)]_vars

\* C15 witness: a run has assembled rows of one commit under two extensions,
\* each with the commit's totalIssues.
C15_Witness ==
    \E r \in DOMAIN runs : \E a, b \in DOMAIN runs[r].newAnalyses :
        LET rows == runs[r].newAnalyses
        IN  /\ rows[a].commit_id = rows[b].commit_id
            /\ rows[a].file_extension # rows[b].file_extension
            /\ rows[a].metric_type = "totalIssues"
            /\ rows[b].metric_type = "totalIssues"
            /\ rows[a].metric_value = rows[b].metric_value

\* no two rows of one (commit, extension, metric name)
NoKeyTwice(rows) ==
    \A a, b \in DOMAIN rows :
        /\ rows[a].commit_id = rows[b].commit_id
        /\ rows[a].file_extension = rows[b].file_extension
        /\ rows[a].metric_type = rows[b].metric_type
        => a = b

\* C17: the rows a run of Data.analyse returns are the rows it read from the
\* table, all of commits up to the last commit it knew, followed by its new
\* rows, and no (commit, extension, metric name) is in them twice.
C17_OldThenNewNoDuplicate ==
    \A r \in DOMAIN runs :
        runs[r].pc = "returned" =>
            /\ runs[r].results = runs[r].oldAnalyses \o runs[r].newAnalyses
            /\ \A k \in DOMAIN runs[r].oldAnalyses :
                  /\ runs[r].lastCommit # Null
                  /\ runs[r].oldAnalyses[k].commit_date <= runs[r].lastCommit.commit_date
            /\ NoKeyTwice(runs[r].results)

\* C17 witness: a run has returned old rows followed by new rows while its
\* own inserts are still to be executed.
C17_Witness ==
    \E r \in DOMAIN runs :
        /\ runs[r].pc = "returned"
        /\ runs[r].oldAnalyses # <<>>
        /\ runs[r].newAnalyses # <<>>
        /\ stmt[r] # <<>>

\* C16 (as claimed): every commit of the static results, one whose analysis
\* failed and has an empty mapping included, has at least one row and one
\* point in what the run returns.
C16_EveryCommitAppears ==
    (fn = "newAnalyses" /\ returned) =>
        \A k \in DOMAIN args.static :
            /\ \E n \in DOMAIN value.rows :
                  value.rows[n].commit_id = args.static[k].commit_id
            /\ \E n \in DOMAIN value.points :
                  value.points[n].commit_id = args.static[k].commit_id

Pivoted == fn = "rows2points" /\ returned

\* the points of the commit and the extension of a row
PointsOf(row) ==
    {n \in DOMAIN value : /\ value[n].commit_id = row.commit_id
                          /\ value[n].file_extension = row.file_extension}

Grouped == fn = "fileByExt" /\ returned

\* the path of a file from the root
Relative(f) == SubSeq(f, Len(RootPath) + 2, Len(f))

\* the files whose path from the root has none of the excluded directory
\* strings at its start and none of the excluded extension strings at its end
NotExcluded ==
    {f \in Elems(args.filepaths) :
        /\ \A d \in Elems(args.excludedDirs) :
              \A n \in 0 .. Len(Relative(f)) :
                 Relative(f) # d \o SubSeq(Relative(f), n + 1, Len(Relative(f)))
        /\ \A x \in Elems(args.excludedExts) :
              \A n \in 0 .. Len(Relative(f)) :
                 Relative(f) # SubSeq(Relative(f), 1, n) \o x}

C20_FallbackPerGroup ==
    /\ \A k \in DOMAIN results :
          k \notin resetFailed =>
             DOMAIN results[k].valuesByExt = Elems(TreeOf(commits[k]))
    /\ pc = "rejected" => resetFailed # {}

\* C21 (as claimed): every walk eventually ends, resolved or rejected,
\* whatever its extractors do: it does not wait forever.
C21_WalkEnds == <>(pc \in {"done", "rejected", "crashed"})

\* a URL with no github.com part, or with no owner or no name after it
Malformed(url) ==
    \/ \A a, b \in 0 .. Len(url) : SubSeq(url, a + 1, b) # "github.com"
    \/ \A a, b, c \in 1 .. Len(url) :
          ~(/\ a < b /\ b < c
            /\ SubSeq(url, a, b) = "github.com/"
            /\ SubSeq(url, c, c) = "/"
            /\ b + 1 < c /\ c < Len(url)
            /\ \A k \in b + 1 .. c - 1 : SubSeq(url, k, k) # "/")

\* C22 (as claimed): with a malformed URL or without a database, an error
\* is raised and no clone, storage or analysis operation was started.
C22_FailFast ==
    (fn = "Data" /\ returned /\ (Malformed(args.url) \/ ~args.db)) =>
        value.error # "none" /\ value.started = <<>>

\* C23 (as claimed): every call of getRepoId resolves, the calls for one
\* (owner, name) resolve to the same id, and the table holds one row of it.
C23_SameIdOneRow ==
    /\ \A r \in DOMAIN requests : requests[r].pc # "rejected"
    /\ \A r, q \in DOMAIN requests :
          (/\ requests[r].url = requests[q].url
           /\ requests[r].repo_id # 0 /\ requests[q].repo_id # 0)
          => requests[r].repo_id = requests[q].repo_id
    /\ \A r \in DOMAIN requests :
          Cardinality(RowsOfRepo(Repositories, requests[r].url)) <= 1

\* C24 (as claimed): no two requests reset or analyse the same clone
\* directory at the same time.
C24_ExclusiveWorkingTree ==
    \A r, q \in DOMAIN requests :
        (/\ r # q
         /\ requests[r].pc \in {"resetting", "analysing"}
         /\ requests[q].pc \in {"resetting", "analysing"})
        => requests[r].clonePath # requests[q].clonePath

ShortestLen(arrays) ==
    CHOOSE n \in {Len(arrays[j]) : j \in DOMAIN arrays} :
        \A j \in DOMAIN arrays : n <= Len(arrays[j])

Zipped(arrays, zipped) ==
    /\ Len(zipped) = ShortestLen(arrays)
    /\ \A k \in DOMAIN zipped : zipped[k] = [j \in DOMAIN arrays |-> arrays[j][k]]

\* C25 (as claimed): zip of two or more arrays is as long as the shortest of
\* them and its i-th element holds the i-th elements of all of them in
\* argument order.
C25_ZipToShortest ==
    (returned /\ fn \in {"zip", "utils.zip"}) => Zipped(args.arrays, value)

\* the variadic zip alone meets it
ZipArraysToShortest ==
    (returned /\ fn = "utils.zip") => Zipped(args.arrays, value)

\* C26: uniques returns each distinct element of the input once, in the
\* order of first occurrence.
C26_UniquesFirstOccurrence ==
    (returned /\ fn = "uniques") =>
        LET d == args.duplicates
            first(x) == CHOOSE k \in DOMAIN d : d[k] = x /\ \A m \in 1 .. k - 1 : d[m] # x
        IN  /\ Elems(value) = Elems(d)
            /\ Len(value) = Cardinality(Elems(d))
            /\ \A k, m \in DOMAIN value :
                  k < m => first(value[k]) < first(value[m])

\* a list with a repeated element that is not next to its first occurrence
\* has been reduced
C26_Witness ==
    /\ returned /\ fn = "uniques"
    /\ args.duplicates = <<2, 1, 2>>
    /\ value = <<2, 1>>

\* the newest commit date among rows
NewestDate(rows) ==
    CHOOSE d \in {rows[k].commit_date : k \in DOMAIN rows} :
        \A k \in DOMAIN rows : rows[k].commit_date <= d

\* C27 (as claimed): when analyse() has returned, every row it handed to
\* insertValues is in the table, and a run that starts after it finds the
\* newest of its stored commits as the last commit.
C27_WrittenWhenResolved ==
    /\ \A r \in Runs : runs[r].pc = "returned" => stmt[r] = <<>>
    /\ \A q \in Runs : \A r \in runs[q].after :
          (/\ runs[q].pc \notin {"idle", "lastCommit"}
           /\ Defined(runs[r].newAnalyses) # <<>>)
          => /\ runs[q].lastCommit # Null
             /\ runs[q].lastCommit.commit_date >= NewestDate(Defined(runs[r].newAnalyses))

\* the (extension, metric name, value) rows of a commit among rows
TriplesOf(rows, c) ==
    {<<rows[k].file_extension, rows[k].metric_type, rows[k].metric_value>> :
        k \in {n \in DOMAIN rows : rows[n].commit_id = c}}

\* C28 (as claimed): what a later run reads back for a commit is the set of
\* rows the run that analysed the commit returned for it.
C28_ReadBackWhatWasReturned ==
    \A q \in Runs : \A r \in runs[q].after :
        \A k \in DOMAIN HeadCommitHistory :
            LET c == HeadCommitHistory[k].id
            IN  (/\ runs[q].read
                 /\ TriplesOf(runs[r].newAnalyses, c) # {}
                 /\ TriplesOf(runs[q].oldAnalyses, c) # {})
                => TriplesOf(runs[q].oldAnalyses, c) = TriplesOf(runs[r].newAnalyses, c)

\* the run selected the commit for analysis
SelectedBy(r, c) ==
    \E n \in DOMAIN DataNewCommits(HeadCommitHistory, runs[r].lastCommit) :
        DataNewCommits(HeadCommitHistory, runs[r].lastCommit)[n].id = c

\* C29 (as claimed): a commit that a returned run analysed and stored no row
\* for is among the new commits of a run that starts afterwards.
C29_UnstoredSelectedAgain ==
    \A q \in Runs : \A r \in runs[q].after :
        \A k \in DOMAIN HeadCommitHistory :
            LET c == HeadCommitHistory[k].id
            IN  (/\ runs[q].pc = "static"
                 /\ SelectedBy(r, c)
                 /\ \A n \in DOMAIN runs[r].newAnalyses :
                       (runs[r].newAnalyses[n].commit_id = c
                        => runs[r].newAnalyses[n].metric_type \notin DOMAIN MetricsByName))
                => \E n \in DOMAIN runs[q].newCommits : runs[q].newCommits[n].id = c

\* where the chunks hold the commit id
PlacesOf(id) ==
    {<<k, j>> \in (DOMAIN params) \X (1 .. Len(commit_ids)) :
        j <= Len(params[k].commit_ids) /\ params[k].commit_ids[j] = id}

PositionOf(id) == CHOOSE n \in DOMAIN commit_ids : commit_ids[n] = id

\* C30: no commit id is in two places of the chunks built so far, the chunks
\* hold nothing but commit ids of the input, each in the order of the input,
\* and when the chunks are sent to the workers every commit id of the input
\* is in one of them.
C30_ChunksPartitionInOrder ==
    /\ \A n \in DOMAIN commit_ids : Cardinality(PlacesOf(commit_ids[n])) <= 1
    /\ parPc = "waiting" =>
          \A n \in DOMAIN commit_ids : Cardinality(PlacesOf(commit_ids[n])) = 1
    /\ \A k \in DOMAIN params :
          /\ Elems(params[k].commit_ids) \subseteq Elems(commit_ids)
          /\ \A a, b \in DOMAIN params[k].commit_ids :
                a < b => PositionOf(params[k].commit_ids[a])
                            < PositionOf(params[k].commit_ids[b])

\* three commits have been dealt to two workers in turn
C30_Witness ==
    /\ parPc = "waiting"
    /\ policy = "alternating"
    /\ Len(commit_ids) = 3 /\ n_cpus = 2
    /\ params[1].commit_ids = <<commit_ids[1], commit_ids[3]>>
    /\ params[2].commit_ids = <<commit_ids[2]>>

====
